---- MODULE Spec2Model ----
(***************************************************************************)
(* Model of src/PPT.py: the content-structure generation and fallback      *)
(* pipeline (GeminiContentGenerator), the image requester (ImageGenerator) *)
(* and the deck assembler (EnhancedPowerPointGenerator).                   *)
(*                                                                         *)
(* Representation of Python values:                                        *)
(*   - Optional[T]: <<>> is None, <<v>> is the value v.                    *)
(*   - a str that the code only copies or interpolates is a TLA+ string;   *)
(*     a str the code inspects character by character (a slide-type tag)   *)
(*     is a sequence of one-character strings.                             *)
(*   - a formatted string (f-string) is the sequence of its pieces, each   *)
(*     piece Lit(s) for literal or interpolated text and Chars(cs) for an  *)
(*     interpolated character sequence.                                    *)
(*   - a dict is a record; a key that is absent is absent from DOMAIN.     *)
(*   - an object that several callers could share (a designer, a slide     *)
(*     dict) is held by identity where requests run side by side.          *)
(*                                                                         *)
(* Specifications: Spec (one generation request), SpecLive (the same under *)
(* fairness), SpecFallback (the assembler and the template lookup on their *)
(* own), SpecParse (the JSON extraction on its own), SpecRequests (several *)
(* requests interleaved).                                                  *)
(***************************************************************************)
EXTENDS Integers, Sequences, FiniteSets, TLC

VARIABLES env, pc, args, gen, llm, content_structure, prs, idx, img, log, calls, result, ret,
          requests, heap

vars == <<env, pc, args, gen, llm, content_structure, prs, idx, img, log, calls, result, ret,
          requests, heap>>

(***************************************************************************)
(* Bounds of the model.                                                    *)
(***************************************************************************)
MaxSlides == 15
MaxFocus == 2
MaxDeckSlides == 3

None == <<>>
Some(v) == <<v>>

Min(a, b) == IF a <= b THEN a ELSE b

(***************************************************************************)
(* Characters and str methods.                                             *)
(***************************************************************************)
Lowers == <<"a","b","c","d","e","f","g","h","i","j","k","l","m",
            "n","o","p","q","r","s","t","u","v","w","x","y","z">>
Uppers == <<"A","B","C","D","E","F","G","H","I","J","K","L","M",
            "N","O","P","Q","R","S","T","U","V","W","X","Y","Z">>

IsLower(c) == \E k \in 1..Len(Lowers) : Lowers[k] = c
IsUpper(c) == \E k \in 1..Len(Uppers) : Uppers[k] = c
IsCased(c) == IsLower(c) \/ IsUpper(c)

Upper(c) == IF IsLower(c) THEN Uppers[CHOOSE k \in 1..Len(Lowers) : Lowers[k] = c] ELSE c
Lower(c) == IF IsUpper(c) THEN Lowers[CHOOSE k \in 1..Len(Uppers) : Uppers[k] = c] ELSE c

\* str.replace(old, new) for one-character old and new
StrReplace(s, old, new) == [k \in 1..Len(s) |-> IF s[k] = old THEN new ELSE s[k]]

\* str.capitalize() in the place of str.title()
StrTitle_Capitalize(s) ==
    [k \in 1..Len(s) |-> IF k = 1 THEN Upper(s[k]) ELSE Lower(s[k])]

\* str.title(): a cased character is upper-cased when the character before it
\* is not cased (or there is none), lower-cased otherwise
StrTitle(s) ==
    [k \in 1..Len(s) |->
        IF k = 1 \/ ~IsCased(s[k-1]) THEN Upper(s[k]) ELSE Lower(s[k])]

Lit(s) == [s |-> s, cs |-> <<>>]
Chars(cs) == [s |-> "", cs |-> cs]

(***************************************************************************)
(* Slide-type tags.                                                        *)
(***************************************************************************)
t_introduction == <<"i","n","t","r","o","d","u","c","t","i","o","n">>
t_overview == <<"o","v","e","r","v","i","e","w">>
t_benefits == <<"b","e","n","e","f","i","t","s">>
t_challenges == <<"c","h","a","l","l","e","n","g","e","s">>
t_implementation == <<"i","m","p","l","e","m","e","n","t","a","t","i","o","n">>
t_conclusion == <<"c","o","n","c","l","u","s","i","o","n">>
t_detailed == <<"d","e","t","a","i","l","e","d">>
t_custom == <<"c","u","s","t","o","m">>
\* tags that are not keys of the template table
t_future_trends == <<"f","u","t","u","r","e","_","t","r","e","n","d","s">>
t_ROI_v2x == <<"R","O","I","_","v","2","x">>
t_Technical_Details == <<"T","e","c","h","n","i","c","a","l"," ","D","e","t","a","i","l","s">>

TemplateKeys == {t_introduction, t_overview, t_benefits, t_challenges}

DefaultSlideTypes ==
    <<t_introduction, t_overview, t_benefits, t_challenges, t_implementation, t_conclusion>>

(***************************************************************************)
(* GeminiContentGenerator._generate_slide_content                          *)
(***************************************************************************)
ContentTemplates(topic, slide_type) ==
    [k \in TemplateKeys |->
        CASE k = t_introduction ->
               [title |-> <<Lit("Introduction to "), Lit(topic)>>,
                content |-> <<Lit("Welcome to our comprehensive presentation on "), Lit(topic),
                              Lit(". Today we'll explore the key aspects, benefits, and implications of this important subject.")>>,
                type |-> slide_type,
                bullet_points |-> << <<Lit("Understanding "), Lit(topic)>>,
                                     <<Lit("Key concepts and definitions")>>,
                                     <<Lit("Why this matters today")>>,
                                     <<Lit("What we'll cover in this presentation")>> >>,
                image_prompt |-> <<Lit(topic), Lit(" introduction concept, modern professional illustration")>>]
          [] k = t_overview ->
               [title |-> <<Lit(topic), Lit(" - Overview")>>,
                content |-> <<Lit("Let's examine the main components and aspects of "), Lit(topic), Lit(".")>>,
                type |-> slide_type,
                bullet_points |-> << <<Lit("Historical context and background")>>,
                                     <<Lit("Current state and trends")>>,
                                     <<Lit("Key stakeholders involved")>>,
                                     <<Lit("Main applications and use cases")>> >>,
                image_prompt |-> <<Lit(topic), Lit(" overview infographic, business concept visualization")>>]
          [] k = t_benefits ->
               [title |-> <<Lit("Benefits of "), Lit(topic)>>,
                content |-> <<Lit("Exploring the key advantages and positive impacts of "), Lit(topic), Lit(".")>>,
                type |-> slide_type,
                bullet_points |-> << <<Lit("Improved efficiency and productivity")>>,
                                     <<Lit("Cost savings and resource optimization")>>,
                                     <<Lit("Enhanced user experience")>>,
                                     <<Lit("Future growth opportunities")>> >>,
                image_prompt |-> <<Lit(topic), Lit(" benefits illustration, growth and success concept")>>]
          [] OTHER ->
               [title |-> <<Lit("Challenges in "), Lit(topic)>>,
                content |-> <<Lit("Understanding the obstacles and considerations for "), Lit(topic), Lit(".")>>,
                type |-> slide_type,
                bullet_points |-> << <<Lit("Technical limitations and constraints")>>,
                                     <<Lit("Implementation barriers")>>,
                                     <<Lit("Resource requirements")>>,
                                     <<Lit("Risk mitigation strategies")>> >>,
                image_prompt |-> <<Lit(topic), Lit(" challenges visualization, problem-solving concept")>>]]

GenericTemplate(topic, slide_type) ==
    [title |-> <<Chars(StrTitle(StrReplace(slide_type, "_", " "))), Lit(" - "), Lit(topic)>>,
     content |-> <<Lit("Detailed information about "), Lit(topic), Lit(" related to "), Chars(slide_type)>>,
     type |-> slide_type,
     bullet_points |-> << <<Lit("Key point about this aspect")>>,
                          <<Lit("Important consideration")>>,
                          <<Lit("Practical implementation")>>,
                          <<Lit("Summary and takeaways")>> >>,
     image_prompt |-> <<Lit(topic), Lit(" "), Chars(slide_type), Lit(" professional illustration")>>]

_generate_slide_content(topic, slide_type) ==
    IF slide_type \in TemplateKeys
    THEN ContentTemplates(topic, slide_type)[slide_type]
    ELSE GenericTemplate(topic, slide_type)

(***************************************************************************)
(* Custom content.  A text is held as the list text.split('.') returns:    *)
(* its segments between full stops (never the empty list).                 *)
(***************************************************************************)
seg_long_a == "Remote work cuts office costs"
seg_long_b == " Teams collaborate across time zones"
seg_long_b_stripped == "Teams collaborate across time zones"

\* str.strip() on the segments of the model
StrStrip(seg) ==
    CASE seg = " " -> ""
      [] seg = seg_long_b -> seg_long_b_stripped
      [] OTHER -> seg

\* len() on the stripped segments of the model
StrLen(s) ==
    CASE s = "" -> 0
      [] s = "Short" -> 5
      [] s = seg_long_a -> 29
      [] s = seg_long_b_stripped -> 35

\* the str a segment list stands for: the segments joined by '.'
RECURSIVE JoinSegments(_)
JoinSegments(segs) ==
    IF Len(segs) = 1 THEN <<Lit(segs[1])>>
    ELSE <<Lit(segs[1]), Lit(".")>> \o JoinSegments(Tail(segs))

\* bool(x) for an Optional str or an Optional list
Truthy(opt) == opt # None /\ opt[1] # <<>> /\ opt[1] # <<"">>

(***************************************************************************)
(* GeminiContentGenerator._extract_key_points_from_text                    *)
(***************************************************************************)
LongEnough(sentence) == StrLen(sentence) > 10

_extract_key_points_from_text(text) ==
    LET sentences == text
        first4 == SubSeq(sentences, 1, Min(4, Len(sentences)))
        stripped == [k \in 1..Len(first4) |-> StrStrip(first4[k])]
        kept == SelectSeq(stripped, LongEnough)
        points == [k \in 1..Len(kept) |-> <<Lit(kept[k])>>]
        padded == IF Len(points) < 3
                  THEN points \o << <<Lit("Key insight from the provided content")>>,
                                    <<Lit("Important consideration for implementation")>>,
                                    <<Lit("Strategic implications and next steps")>> >>
                  ELSE points
    IN SubSeq(padded, 1, Min(6, Len(padded)))

(***************************************************************************)
(* GeminiContentGenerator._generate_fallback_content                       *)
(***************************************************************************)
CustomSlide(topic, custom_content) ==
    [slide_number |-> 1,
     type |-> t_custom,
     title |-> <<Lit("About "), Lit(topic)>>,
     content |-> JoinSegments(custom_content[1]),
     bullet_points |-> _extract_key_points_from_text(custom_content[1]),
     image_prompt |-> <<Lit(topic), Lit(" overview illustration")>>]

\* slide_types: "if focus_areas: ... else: default list"
SlideTypes(focus_areas) ==
    IF Truthy(focus_areas) THEN focus_areas[1] ELSE DefaultSlideTypes

\* a loop over range(num_slides), whatever the number of slide types
LoopCount_IgnoresTypes(num_slides, slide_types) ==
    IF num_slides > 0 THEN num_slides ELSE 0

\* the number of iterations of "for i in range(min(num_slides, len(slide_types)))"
LoopCount(num_slides, slide_types) ==
    LET n == Min(num_slides, Len(slide_types)) IN IF n > 0 THEN n ELSE 0

\* a slide numbered by the loop index, whatever the list already holds
TemplateSlide_NumberFromLoop(topic, slide_types, i, before) ==
    LET slide_type == IF i < Len(slide_types) THEN slide_types[i + 1] ELSE t_detailed
    IN [slide_number |-> i + 1] @@ _generate_slide_content(topic, slide_type)

\* the slide appended in iteration i (0-based) when the list holds `before` slides
TemplateSlide(topic, slide_types, i, before) ==
    LET slide_type == IF i < Len(slide_types) THEN slide_types[i + 1] ELSE t_detailed
    IN [slide_number |-> before + 1] @@ _generate_slide_content(topic, slide_type)

_generate_fallback_content(topic, num_slides, focus_areas, custom_content) ==
    LET custom == Truthy(custom_content)
        first == IF custom THEN <<CustomSlide(topic, custom_content)>> ELSE <<>>
        remaining == IF custom THEN num_slides - 1 ELSE num_slides
        slide_types == SlideTypes(focus_areas)
        n == LoopCount(remaining, slide_types)
    IN [title |-> <<Lit(topic)>>,
        subtitle |-> <<Lit("AI-Generated Presentation")>>,
        slides |-> first \o [k \in 1..n |->
                        TemplateSlide(topic, slide_types, k - 1, Len(first) + k - 1)]]

(***************************************************************************)
(* The LLM response.  response.text is a sequence of tokens:               *)
(*   "fence"  three backticks          "json"   the word json after them   *)
(*   "ws"     whitespace               "prose"  text without brace or fence*)
(*   "{" "}"  the outer braces of a JSON object                            *)
(*   "body"   the members of the object (inner braces are balanced and     *)
(*            lie between the outer ones)                                  *)
(*   "scalar" a JSON value that is no object                               *)
(* The object "body" stands for is carried beside the text (obj), with     *)
(* slides_ok telling whether its "slides" value is a list of dicts.        *)
(***************************************************************************)
RECURSIVE LStrip(_)
LStrip(t) == IF t # <<>> /\ Head(t) = "ws" THEN LStrip(Tail(t)) ELSE t

RECURSIVE RStrip(_)
RStrip(t) == IF t # <<>> /\ t[Len(t)] = "ws" THEN RStrip(SubSeq(t, 1, Len(t) - 1)) ELSE t

\* str.strip()
Strip(t) == RStrip(LStrip(t))

Positions(t, tok) == {k \in 1..Len(t) : t[k] = tok}

SetMin(S) == CHOOSE x \in S : \A y \in S : x <= y
SetMax(S) == CHOOSE x \in S : \A y \in S : y <= x

\* re.search(r'```(?:json)?\s*(.*?)\s*```', text, re.DOTALL): the match starts at
\* the first fence that has a fence after it and ends at the next fence;
\* group(1) is what lies between, without the word json and the whitespace
\* after the opening fence and without the whitespace before the closing one.
\* None when the text has fewer than two fences.
FencedBlock(t) ==
    LET fences == Positions(t, "fence")
    IN IF Cardinality(fences) < 2 THEN None
       ELSE LET a == SetMin(fences)
                b == SetMin(fences \ {a})
                afterJson == IF t[a + 1] = "json" THEN a + 2 ELSE a + 1
            IN Some(RStrip(LStrip(SubSeq(t, afterJson, b - 1))))

\* lines 156-169 with the search for the braces before the search for a
\* fenced block
JsonContent_BracesFirst(text) ==
    LET response_text == Strip(text)
        json_match == FencedBlock(response_text)
        opens == Positions(response_text, "{")
        closes == Positions(response_text, "}")
    IN IF opens # {} /\ closes # {}
       THEN SubSeq(response_text, SetMin(opens), SetMax(closes))
       ELSE IF json_match # None THEN json_match[1]
            ELSE response_text

\* lines 156-169: the text handed to json.loads
JsonContent(text) ==
    LET response_text == Strip(text)
        json_match == FencedBlock(response_text)
        opens == Positions(response_text, "{")
        closes == Positions(response_text, "}")
    IN IF json_match # None THEN json_match[1]
       ELSE IF opens # {} /\ closes # {}
            THEN SubSeq(response_text, SetMin(opens), SetMax(closes))
            ELSE response_text

\* json.loads: "dict" (the object obj), "empty_dict" ({}), "nondict" or
\* "JSONDecodeError"; whitespace around the value is accepted
JsonLoads(t) ==
    LET v == Strip(t)
    IN CASE v = <<"{", "body", "}">> -> "dict"
         [] v = <<"{", "}">> -> "empty_dict"
         [] v = <<"scalar">> -> "nondict"
         [] OTHER -> "JSONDecodeError"

NonStr(v) == [s |-> v, cs |-> <<>>, nonstr |-> TRUE]
IsStr(text) == \A k \in 1..Len(text) : "nonstr" \notin DOMAIN text[k]

\* an element of the "slides" list is a dict, or a str: [str |-> names], names
\* being the field names that occur in the str as substrings
IsDict(slide) == "str" \notin DOMAIN slide

\* the operator "in" of lines 180-184: key test on a dict, substring test on a str
Contains(slide, key) ==
    IF IsDict(slide) THEN key \in DOMAIN slide ELSE key \in slide.str

BackfillFields == {"bullet_points", "image_prompt", "content"}

\* lines 181-185 on a str: the item assignment raises TypeError
BackfillRaises(slide) ==
    ~IsDict(slide) /\ \E f \in BackfillFields : ~Contains(slide, f)

\* lines 179-185: the fields a slide of the response lacks, with their defaults
Backfill(topic, slide) ==
    LET missing == {f \in BackfillFields : ~Contains(slide, f)}
        default == [f \in missing |->
            CASE f = "bullet_points" ->
                   << <<Lit("Key point 1")>>, <<Lit("Key point 2")>>, <<Lit("Key point 3")>> >>
              [] f = "image_prompt" -> <<Lit(topic), Lit(" related illustration")>>
              [] OTHER -> <<Lit("Content about ")>> \o
                          (IF "title" \in DOMAIN slide THEN slide.title ELSE <<Lit(topic)>>)]
    IN slide @@ default

WarnJson == "Could not parse AI response as JSON"
WarnGemini == "Gemini AI error"

Fallback(a) == _generate_fallback_content(a.topic, a.num_slides, a.focus_areas, a.custom_content)

\* a handler that returns the fallback of the topic alone
OnJSONDecodeError_DropsInputs(a) ==
    [exc |-> "", structure |-> _generate_fallback_content(a.topic, a.num_slides, None, None),
     warnings |-> <<WarnJson>>]

\* lines 189-191: except json.JSONDecodeError
OnJSONDecodeError(a) ==
    [exc |-> "", structure |-> Fallback(a), warnings |-> <<WarnJson>>]

\* a handler that returns a structure without slides
OnException_NoSlides(a) ==
    [exc |-> "",
     structure |-> [title |-> <<Lit(a.topic)>>, subtitle |-> <<Lit("AI-Generated Presentation")>>,
                    slides |-> <<>>],
     warnings |-> <<WarnGemini>>]

\* lines 192-194: except Exception
OnException(a) ==
    [exc |-> "", structure |-> Fallback(a), warnings |-> <<WarnGemini>>]

(***************************************************************************)
(* GeminiContentGenerator._generate_with_gemini, given what                *)
(* self.model.generate_content(prompt) did: r.raised, or the response      *)
(* r.text with the object r.obj.  Returns the structure and the warnings;  *)
(* exc is the exception that leaves the method ("" for none): both except *)
(* clauses return the fallback, so none does.                              *)
(***************************************************************************)
_generate_with_gemini(a, r) ==
    LET parsed == JsonLoads(JsonContent(r.text))
    IN IF r.raised THEN OnException(a)
       ELSE IF parsed = "JSONDecodeError" THEN OnJSONDecodeError(a)
       ELSE IF parsed # "dict" \/ "slides" \notin DOMAIN r.obj THEN OnException(a)
       ELSE IF ~r.slides_ok THEN OnException(a)
       ELSE IF \E k \in 1..Len(r.obj.slides) : BackfillRaises(r.obj.slides[k]) THEN OnException(a)
       ELSE [exc |-> "",
             structure |-> [r.obj EXCEPT !.slides =
                               [k \in 1..Len(r.obj.slides) |-> Backfill(a.topic, r.obj.slides[k])]],
             warnings |-> <<>>]

(***************************************************************************)
(* GeminiContentGenerator.generate_content_structure                       *)
(***************************************************************************)
generate_content_structure(a, model, available, r) ==
    LET g == _generate_with_gemini(a, r)
    IN IF model /\ available
       THEN IF g.exc # ""
            THEN [exc |-> "", structure |-> Fallback(a), warnings |-> <<WarnGemini>>]
            ELSE g
       ELSE [exc |-> "", structure |-> Fallback(a), warnings |-> <<>>]

(***************************************************************************)
(* ImageGenerator.generate_image.  What the network did in one invocation  *)
(* is the outcome o: o.post for requests.post, o.get for requests.get and  *)
(* o.placeholder for the drawing of the placeholder bitmap.                *)
(***************************************************************************)
PostOutcomes == {"Timeout", "ConnectionError", "200", "200_malformed", "non200", "non200_malformed"}
GetOutcomes == {"Timeout", "ConnectionError", "200", "200_junk", "non200"}
PlaceholderOutcomes == {"drawn", "draw_fails"}

\* an outcome names only the calls the invocation makes: no download where the
\* post did not answer 200 with a well-formed body, no drawing where the
\* download delivered
ImageOutcomes ==
    {o \in [post : PostOutcomes, get : GetOutcomes, placeholder : PlaceholderOutcomes] :
        /\ o.post # "200" => o.get = "200"
        /\ o.post = "200" /\ o.get \in {"200", "200_junk"} => o.placeholder = "drawn"}

\* _generate_placeholder_image: the drawn placeholder, or the minimal one
\* (with a warning) when drawing raises
_generate_placeholder_image(o) ==
    IF o.placeholder = "drawn"
    THEN [ret |-> Some("placeholder"), warnings |-> 0]
    ELSE [ret |-> Some("minimal_placeholder"), warnings |-> 1]

\* lines 331-366: the try block; exc is the exception that leaves it ("" for none),
\* ret the value it returns (None when it falls through)
ImageTry(o) ==
    CASE o.post \in {"Timeout", "ConnectionError"} ->
           [exc |-> o.post, ret |-> None, posts |-> 1, gets |-> 0, warnings |-> 0, errors |-> 0]
      [] o.post = "200_malformed" ->
           [exc |-> "KeyError", ret |-> None, posts |-> 1, gets |-> 0, warnings |-> 0, errors |-> 0]
      [] o.post = "non200_malformed" ->
           [exc |-> "JSONDecodeError", ret |-> None, posts |-> 1, gets |-> 0, warnings |-> 0, errors |-> 0]
      [] o.post = "non200" ->
           [exc |-> "", ret |-> None, posts |-> 1, gets |-> 0, warnings |-> 0, errors |-> 1]
      [] OTHER ->
           CASE o.get \in {"Timeout", "ConnectionError"} ->
                  [exc |-> o.get, ret |-> None, posts |-> 1, gets |-> 1, warnings |-> 0, errors |-> 0]
             [] o.get = "200" ->
                  [exc |-> "", ret |-> Some("image"), posts |-> 1, gets |-> 1, warnings |-> 0, errors |-> 0]
             [] o.get = "200_junk" ->
                  [exc |-> "", ret |-> Some("junk"), posts |-> 1, gets |-> 1, warnings |-> 0, errors |-> 0]
             [] OTHER ->
                  [exc |-> "", ret |-> None, posts |-> 1, gets |-> 1, warnings |-> 1, errors |-> 0]

\* except clauses for the exceptions of requests alone
ImageCaught_RequestsOnly(exc) == exc \in {"Timeout", "ConnectionError", "JSONDecodeError"}

\* the except clauses of lines 368-373: every exception the try block raises
\* is an Exception, so one of the three clauses takes it
ImageCaught(exc) == exc \in {"Timeout", "ConnectionError", "JSONDecodeError", "KeyError"}

\* generate_image with a second attempt after a failed one
generate_image_Retries(api_key, o) ==
    LET ph == _generate_placeholder_image(o)
        t == ImageTry(o)
    IN IF api_key = ""
       THEN [exc |-> "", ret |-> ph.ret, posts |-> 0, gets |-> 0,
             warnings |-> 1 + ph.warnings, errors |-> 0]
       ELSE IF t.exc = "" /\ t.ret # None THEN t
       ELSE [exc |-> "", ret |-> ph.ret, posts |-> t.posts + 1, gets |-> t.gets,
             warnings |-> t.warnings + (IF t.exc # "" THEN 1 ELSE 0) + ph.warnings,
             errors |-> t.errors]

generate_image(api_key, o) ==
    LET ph == _generate_placeholder_image(o)
        t == ImageTry(o)
    IN IF api_key = ""
       THEN [exc |-> "", ret |-> ph.ret, posts |-> 0, gets |-> 0,
             warnings |-> 1 + ph.warnings, errors |-> 0]
       ELSE IF t.exc = "" /\ t.ret # None THEN t
       ELSE IF t.exc # "" /\ ~ImageCaught(t.exc) THEN t
       ELSE [exc |-> "", ret |-> ph.ret, posts |-> t.posts, gets |-> t.gets,
             warnings |-> t.warnings + (IF t.exc # "" THEN 1 ELSE 0) + ph.warnings,
             errors |-> t.errors]

(***************************************************************************)
(* EnhancedPresentationDesigner                                            *)
(***************************************************************************)
Themes == {"professional", "modern", "creative", "dark"}

\* a setter without the membership test
set_theme_Unchecked(current_theme, theme_name) == theme_name

set_theme(current_theme, theme_name) ==
    IF theme_name \in Themes THEN theme_name ELSE current_theme

\* get_theme_colors: self.themes[self.current_theme] raises KeyError for a name
\* that is no key
get_theme_colors(themes, current_theme) ==
    IF current_theme \in themes THEN "colors" ELSE "KeyError"

(***************************************************************************)
(* The slides of the deck (prs.slides).  A slide is added to the deck      *)
(* before its shapes are filled, so a slide whose filling raised stays in  *)
(* the deck with what was written until then.  Each builder returns the    *)
(* slides it added, the warnings it emitted and the exception that leaves  *)
(* it ("" for none: each wraps its body in try/except Exception).          *)
(***************************************************************************)
\* a builder that adds its slide only once the slide is filled
UnfinishedSlide_NotAdded(kind, src) == <<>>

\* the slide a builder leaves in the deck when filling it raises: add_slide
\* (lines 543, 568, 630) comes before any shape is filled
UnfinishedSlide(kind, src) ==
    <<[kind |-> kind, src |-> src, title |-> None, picture |-> FALSE, body |-> FALSE]>>

\* a builder without its try/except
SlideExcept_Propagates(exc) == [warnings |-> 0, exc |-> exc]

\* the except Exception clause of a builder (lines 561-562, 624-625, 650-651):
\* a warning, and nothing is raised
SlideExcept(exc) == [warnings |-> 1, exc |-> ""]

\* _create_title_slide
_create_title_slide(title, subtitle) ==
    IF IsStr(title)
    THEN [added |-> <<[kind |-> "title", src |-> 0, title |-> Some(title), picture |-> FALSE, body |-> TRUE]>>,
          warnings |-> 0, exc |-> ""]
    ELSE [added |-> UnfinishedSlide("title", 0)] @@ SlideExcept("TypeError")

\* _create_content_slide_with_image for the slide at position src of the list
_create_content_slide_with_image(slide_data, src, include_images) ==
    LET has_title == "title" \in DOMAIN slide_data
        has_bytes == "image_bytes" \in DOMAIN slide_data /\ slide_data.image_bytes # None
        embeds == include_images /\ has_bytes /\ slide_data.image_bytes[1] # "junk"
        picture_fails == include_images /\ has_bytes /\ slide_data.image_bytes[1] = "junk"
    IN IF ~has_title
       THEN [added |-> UnfinishedSlide("content", src)] @@ SlideExcept("KeyError")
       ELSE IF ~IsStr(slide_data.title)
       THEN [added |-> UnfinishedSlide("content", src)] @@ SlideExcept("TypeError")
       ELSE [added |-> <<[kind |-> "content", src |-> src, title |-> Some(slide_data.title),
                          picture |-> embeds, body |-> TRUE]>>,
             warnings |-> IF picture_fails THEN 1 ELSE 0, exc |-> ""]

\* _create_closing_slide
_create_closing_slide(topic) ==
    [added |-> <<[kind |-> "closing", src |-> 0, title |-> Some(<<Lit("Thank You!")>>),
                  picture |-> FALSE, body |-> TRUE]>>,
     warnings |-> 0, exc |-> ""]

(***************************************************************************)
(* Inputs.                                                                 *)
(***************************************************************************)
\* GEMINI_API_KEY and OPENAI_API_KEY are read (lines 80, 321, 662, 668, 806) but
\* bound nowhere in src/PPT.py: a run finds each bound by the process
\* configuration to a key, bound to the empty string, or not bound at all
Unbound == "<unbound>"
Config == {Unbound, "", "key"}

Topics == {"Remote Work", "AI"}

FocusTags == {t_introduction, t_benefits, t_future_trends, t_ROI_v2x, t_Technical_Details}

SeqsUpTo(S, n) == UNION {[1..m -> S] : m \in 0..n}

\* focus_areas: None, the empty list, or a list of tags
FocusLists == {None} \cup {Some(l) : l \in SeqsUpTo(FocusTags, MaxFocus)}

text_short == <<"Short">>
text_two == <<seg_long_a, seg_long_b, "">>
text_three == <<seg_long_a, seg_long_b, " ", seg_long_a, "">>
text_five == <<seg_long_a, seg_long_b, seg_long_a, seg_long_b, seg_long_a, "">>

\* custom_content: None, the empty str, or a text
CustomContents == {None, Some(<<"">>), Some(text_short), Some(text_two), Some(text_three), Some(text_five)}

NoArgs == [topic |-> "", num_slides |-> 0, theme |-> "", focus_areas |-> None,
           custom_content |-> None, include_images |-> FALSE]

\* the arguments of the calls of the assembler on its own
FallbackArgs ==
    {[topic |-> t, num_slides |-> n, theme |-> "professional", focus_areas |-> f,
      custom_content |-> c, include_images |-> FALSE] :
        t \in Topics, n \in 0..MaxSlides, f \in FocusLists, c \in CustomContents}

\* the arguments of create_presentation
DeckFocusLists == {None, Some(<<t_future_trends>>), Some(<<t_benefits, t_ROI_v2x>>)}
DeckCustomContents == {None, Some(text_two)}
DeckThemes == {"dark", "neon"}

DeckArgs ==
    {[topic |-> "Remote Work", num_slides |-> n, theme |-> th, focus_areas |-> f,
      custom_content |-> c, include_images |-> im] :
        n \in 0..MaxDeckSlides, th \in DeckThemes, f \in DeckFocusLists,
        c \in DeckCustomContents, im \in BOOLEAN}

\* slides of an LLM response
llm_slide_full ==
    [slide_number |-> 1, type |-> <<"c","o","n","t","e","n","t">>,
     title |-> <<Lit("LLM slide title")>>, content |-> <<Lit("LLM slide content")>>,
     bullet_points |-> << <<Lit("p1")>>, <<Lit("p2")>>, <<Lit("p3")>>, <<Lit("p4")>>,
                          <<Lit("p5")>>, <<Lit("p6")>>, <<Lit("p7")>> >>,
     image_prompt |-> <<Lit("LLM image prompt")>>]
llm_slide_title_only == [title |-> <<Lit("LLM bare slide")>>]
llm_slide_untitled == [type |-> <<"c","o","n","t","e","n","t">>, bullet_points |-> <<>>]
llm_slide_bad_title == [title |-> <<NonStr("42")>>, content |-> <<Lit("LLM slide content")>>]

\* slides that are JSON strings: one that names no field, one that names all
\* the fields of lines 180-184
llm_slide_str == [str |-> {}]
llm_slide_str_fields == [str |-> {"bullet_points", "image_prompt", "content"}]

LLMSlideLists ==
    {<<>>, <<llm_slide_full>>, <<llm_slide_title_only, llm_slide_full>>,
     <<llm_slide_untitled, llm_slide_full>>, <<llm_slide_bad_title, llm_slide_title_only>>,
     <<llm_slide_full, llm_slide_str>>, <<llm_slide_title_only, llm_slide_str_fields>>}

llm_title == <<Lit("LLM title")>>
llm_subtitle == <<Lit("LLM subtitle")>>

\* the objects an LLM response can hold
LLMObjects ==
    {[title |-> llm_title, subtitle |-> llm_subtitle, slides |-> l] : l \in LLMSlideLists}
    \cup {[subtitle |-> llm_subtitle, slides |-> <<llm_slide_full>>],
          [title |-> llm_title, slides |-> <<llm_slide_full>>],
          [title |-> llm_title, subtitle |-> llm_subtitle],
          [title |-> <<NonStr("42")>>, subtitle |-> llm_subtitle, slides |-> <<llm_slide_full>>]}

EmptyObject == [title |-> llm_title, subtitle |-> llm_subtitle]

\* the texts an LLM response can have
LLMTexts ==
    {<<"{", "body", "}">>,
     <<"ws", "{", "body", "}", "ws">>,
     <<"fence", "json", "ws", "{", "body", "}", "ws", "fence">>,
     <<"prose", "fence", "{", "body", "}", "fence", "prose">>,
     <<"prose", "{", "body", "}", "prose">>,
     <<"fence", "json", "ws", "{", "body", "}">>,
     <<"fence", "prose", "fence", "{", "body", "}">>,
     <<"prose">>,
     <<"{", "body">>,
     <<"{", "}">>,
     <<"scalar">>,
     <<>>}

NoResponse == [called |-> FALSE, raised |-> FALSE, text |-> <<>>, obj |-> EmptyObject, slides_ok |-> TRUE]

\* what self.model.generate_content(prompt) can do
LLMResponses ==
    {[called |-> TRUE, raised |-> TRUE, text |-> <<>>, obj |-> EmptyObject, slides_ok |-> TRUE]}
    \cup {[called |-> TRUE, raised |-> FALSE, text |-> t, obj |-> o, slides_ok |-> TRUE] :
            t \in {x \in LLMTexts : JsonLoads(JsonContent(x)) = "dict"}, o \in LLMObjects}
    \cup {[called |-> TRUE, raised |-> FALSE, text |-> t, obj |-> EmptyObject, slides_ok |-> TRUE] :
            t \in {x \in LLMTexts : JsonLoads(JsonContent(x)) # "dict"}}
    \cup {[called |-> TRUE, raised |-> FALSE, text |-> <<"{", "body", "}">>,
           obj |-> [title |-> llm_title, subtitle |-> llm_subtitle, slides |-> <<>>],
           slides_ok |-> FALSE]}

(***************************************************************************)
(* State.                                                                  *)
(*   env      GEMINI_AVAILABLE and the two credential globals              *)
(*   pc       the position of the request                                  *)
(*   args     the arguments of create_presentation                         *)
(*   gen      the generator: content_generator.model (set or not),         *)
(*            image_generator.api_key, designer.current_theme              *)
(*   llm      the response of the LLM call of this request                 *)
(*   content_structure, prs, idx   locals of create_presentation (idx is   *)
(*            the 1-based position of the slide the loop is at)            *)
(*   img      what the image endpoint did for the slide the loop is at     *)
(*   log      the numbers of st.warning and st.error banners               *)
(*   calls    the numbers of LLM calls, image posts and image downloads    *)
(*   result   what the request ended with                                  *)
(*   ret      the value returned by a function called on its own           *)
(*   requests, heap   several generation requests side by side: the locals *)
(*            of each request, and the objects they allocate (designers    *)
(*            and slide dicts) by identity                                 *)
(***************************************************************************)
NoGen == [model |-> FALSE, image_api_key |-> "", current_theme |-> "professional", themes |-> Themes]
NoResult == [kind |-> "none", exc |-> "", deck |-> <<>>]
NoRet == [fn |-> "", slide_type |-> <<>>, value |-> <<>>]
NoLog == [warnings |-> 0, errors |-> 0]
NoImage == [called |-> FALSE, outcome |-> [post |-> "200", get |-> "200", placeholder |-> "drawn"]]
NoHeap == [designers |-> <<>>, slides |-> <<>>]
NoCalls == [llm |-> 0, image |-> 0, post |-> 0, get |-> 0]

Structure == content_structure[1]

Init ==
    /\ env \in [GEMINI_AVAILABLE : BOOLEAN, GEMINI_API_KEY : Config, OPENAI_API_KEY : Config]
    /\ pc = "new"
    /\ args = NoArgs
    /\ gen = NoGen
    /\ llm = NoResponse
    /\ content_structure = None
    /\ prs = <<>>
    /\ idx = 0
    /\ img = NoImage
    /\ log = NoLog
    /\ calls = NoCalls
    /\ result = NoResult
    /\ ret = NoRet
    /\ requests = <<>>
    /\ heap = NoHeap

\* an exception leaves create_presentation (lines 536-538) or the constructor and
\* main reports it (lines 855-856)
Raise(exc, banners) ==
    /\ pc' = "raised"
    /\ result' = [kind |-> "raised", exc |-> exc, deck |-> <<>>]
    /\ log' = [log EXCEPT !.errors = @ + banners]

\* main line 806: EnhancedPowerPointGenerator(GEMINI_API_KEY, OPENAI_API_KEY), with
\* the three __init__ (lines 79-90, 320-322, 426-462, 474-477)
Construct ==
    /\ pc = "new"
    /\ IF env.GEMINI_API_KEY = Unbound \/ env.OPENAI_API_KEY = Unbound
       THEN /\ Raise("NameError", 1)
            /\ UNCHANGED gen
       ELSE \E configured \in BOOLEAN :
              /\ configured => env.GEMINI_AVAILABLE /\ env.GEMINI_API_KEY # ""
              /\ gen' = [model |-> configured,
                         image_api_key |-> env.OPENAI_API_KEY,
                         current_theme |-> "professional",
                         themes |-> Themes]
              /\ log' = [log EXCEPT !.errors =
                            @ + (IF env.GEMINI_AVAILABLE /\ env.GEMINI_API_KEY # "" /\ ~configured
                                 THEN 1 ELSE 0)]
              /\ pc' = "constructed"
              /\ UNCHANGED result
    /\ UNCHANGED <<requests, heap, env, args, llm, content_structure, prs, idx, img, calls, ret>>

\* create_presentation is called with arguments of the set A: lines 485-486
CallWith(A) ==
    /\ pc = "constructed"
    /\ \E a \in A :
         /\ args' = a
         /\ gen' = [gen EXCEPT !.current_theme = set_theme(@, a.theme)]
    /\ pc' = "content"
    /\ UNCHANGED <<requests, heap, env, llm, content_structure, prs, idx, img, log, calls, result, ret>>

Call == CallWith(DeckArgs)

\* what the statement of lines 490-492 does with the outcome of
\* generate_content_structure
ContentGenerated(out) ==
    IF out.exc # ""
    THEN /\ Raise(out.exc, 2)
         /\ UNCHANGED content_structure
    ELSE /\ content_structure' = Some(out.structure)
         /\ log' = [log EXCEPT !.warnings = @ + Len(out.warnings)]
         /\ pc' = "title"
         /\ UNCHANGED result

\* lines 490-492 with self.model set: generate_content_structure takes the LLM path
GenerateWithGemini ==
    /\ pc = "content"
    /\ gen.model /\ env.GEMINI_AVAILABLE
    /\ \E r \in LLMResponses :
         /\ llm' = r
         /\ ContentGenerated(generate_content_structure(args, gen.model, env.GEMINI_AVAILABLE, r))
    /\ calls' = [calls EXCEPT !.llm = @ + 1]
    /\ UNCHANGED <<requests, heap, env, args, gen, prs, idx, img, ret>>

\* lines 490-492 with no model: generate_content_structure assembles the fallback
GenerateFallback ==
    /\ pc = "content"
    /\ ~(gen.model /\ env.GEMINI_AVAILABLE)
    /\ ContentGenerated(generate_content_structure(args, gen.model, env.GEMINI_AVAILABLE, NoResponse))
    /\ UNCHANGED <<requests, heap, env, args, gen, llm, prs, idx, img, calls, ret>>

\* what a statement that calls a slide builder does with the builder's outcome
SlideBuilt(built, next_pc) ==
    /\ prs' = prs \o built.added
    /\ IF built.exc # ""
       THEN Raise(built.exc, 2)
       ELSE /\ log' = [log EXCEPT !.warnings = @ + built.warnings]
            /\ pc' = next_pc
            /\ UNCHANGED result

\* lines 498-502: content_structure["title"] and ["subtitle"] are read (KeyError
\* when absent), then the title slide is built
TitleSlide ==
    /\ pc = "title"
    /\ llm' = NoResponse
    /\ IF "title" \notin DOMAIN Structure \/ "subtitle" \notin DOMAIN Structure
       THEN /\ Raise("KeyError", 2)
            /\ UNCHANGED <<prs, idx>>
       ELSE /\ SlideBuilt(_create_title_slide(Structure.title, Structure.subtitle), "loop")
            /\ idx' = 1
    /\ UNCHANGED <<requests, heap, env, args, gen, content_structure, img, calls, ret>>

\* line 507: slide_data.get raises AttributeError on an element that is no dict
SlideDataRaises ==
    /\ pc = "loop"
    /\ idx <= Len(Structure.slides)
    /\ ~IsDict(Structure.slides[idx])
    /\ Raise("AttributeError", 2)
    /\ UNCHANGED <<requests, heap, env, args, gen, llm, content_structure, prs, idx, img, calls, ret>>

\* lines 509-517: the image of the slide the loop is at
GenerateImage ==
    /\ pc = "loop"
    /\ idx <= Len(Structure.slides)
    /\ IsDict(Structure.slides[idx])
    /\ args.include_images
    /\ \E o \in ImageOutcomes :
         LET g == generate_image(gen.image_api_key, o)
             caught == g.exc # ""
             image_bytes == IF caught THEN None ELSE g.ret
         IN /\ img' = [called |-> TRUE, outcome |-> o]
            /\ content_structure' =
                  Some([Structure EXCEPT !.slides[idx] =
                            [f \in DOMAIN @ \cup {"image_bytes"} |->
                                IF f = "image_bytes" THEN image_bytes ELSE @[f]]])
            /\ log' = [warnings |-> log.warnings + g.warnings + (IF caught THEN 1 ELSE 0),
                       errors |-> log.errors + g.errors]
            /\ calls' = [calls EXCEPT !.image = @ + 1, !.post = @ + g.posts, !.get = @ + g.gets]
    /\ pc' = "build"
    /\ UNCHANGED <<requests, heap, env, args, gen, llm, prs, idx, result, ret>>

\* a loop that builds the slide without waiting for its image
ContentSlide_SkipsImage ==
    /\ pc \in {"loop", "build"} /\ idx <= Len(Structure.slides)
    /\ IsDict(Structure.slides[idx])
    /\ SlideBuilt(_create_content_slide_with_image(Structure.slides[idx], idx, args.include_images),
                  "loop")
    /\ idx' = idx + 1
    /\ img' = NoImage
    /\ UNCHANGED <<requests, heap, env, args, gen, llm, content_structure, calls, ret>>

\* line 519: the slide the loop is at is built, and the loop moves on
ContentSlide ==
    /\ \/ pc = "build"
       \/ /\ pc = "loop" /\ idx <= Len(Structure.slides) /\ ~args.include_images
          /\ IsDict(Structure.slides[idx])
    /\ SlideBuilt(_create_content_slide_with_image(Structure.slides[idx], idx, args.include_images),
                  "loop")
    /\ idx' = idx + 1
    /\ img' = NoImage
    /\ UNCHANGED <<requests, heap, env, args, gen, llm, content_structure, calls, ret>>

\* lines 521-523, after the loop
ClosingSlide ==
    /\ pc = "loop"
    /\ idx > Len(Structure.slides)
    /\ SlideBuilt(_create_closing_slide(args.topic), "save")
    /\ UNCHANGED <<requests, heap, env, args, gen, llm, content_structure, idx, img, calls, ret>>

\* a serialization that starts the request over
Save_Restarts ==
    /\ pc = "save"
    /\ pc' = "content"
    /\ content_structure' = None
    /\ prs' = <<>>
    /\ idx' = 0
    /\ UNCHANGED <<requests, heap, env, args, gen, llm, img, log, calls, result, ret>>

\* main, lines 775 and 829: the total slide count shown to the user
ReportedTotal(num_slides) == num_slides + 2

\* lines 528-534: the deck is serialized and returned
Save ==
    /\ pc = "save"
    /\ result' = [kind |-> "bytes", exc |-> "", deck |-> prs]
    /\ pc' = "returned"
    /\ UNCHANGED <<requests, heap, env, args, gen, llm, content_structure, prs, idx, img, log, calls, ret>>

Next ==
    \/ Construct
    \/ Call
    \/ GenerateWithGemini
    \/ GenerateFallback
    \/ TitleSlide
    \/ SlideDataRaises
    \/ GenerateImage
    \/ ContentSlide
    \/ ClosingSlide
    \/ Save

Spec == Init /\ [][Next]_vars

(***************************************************************************)
(* The request under fairness: it runs on one call stack and every call it *)
(* makes returns or raises, so a step that can be taken is taken.  The     *)
(* requests are those with a focus-area list and no custom content.        *)
(***************************************************************************)
LiveArgs ==
    {a \in DeckArgs : a.focus_areas # None /\ a.custom_content = None /\ a.theme = "dark"}

InitLive ==
    /\ Init
    /\ env.GEMINI_AVAILABLE
    /\ env.GEMINI_API_KEY \in {Unbound, "key"}
    /\ env.OPENAI_API_KEY = "key"

CallLive == CallWith(LiveArgs)

NextLive ==
    \/ Construct
    \/ CallLive
    \/ GenerateWithGemini
    \/ GenerateFallback
    \/ TitleSlide
    \/ SlideDataRaises
    \/ GenerateImage
    \/ ContentSlide
    \/ ClosingSlide
    \/ Save

SpecLive == InitLive /\ [][NextLive]_vars /\ WF_vars(NextLive)

(***************************************************************************)
(* The assembler and the template lookup called on their own.              *)
(***************************************************************************)
InitFallback ==
    /\ env = [GEMINI_AVAILABLE |-> FALSE, GEMINI_API_KEY |-> "key", OPENAI_API_KEY |-> "key"]
    /\ pc = "fn"
    /\ args \in FallbackArgs
    /\ gen = [NoGen EXCEPT !.image_api_key = "key"]
    /\ llm = NoResponse
    /\ content_structure = None
    /\ prs = <<>>
    /\ idx = 0
    /\ img = NoImage
    /\ log = NoLog
    /\ calls = NoCalls
    /\ result = NoResult
    /\ ret = NoRet
    /\ requests = <<>>
    /\ heap = NoHeap

CallFallback ==
    /\ pc = "fn"
    /\ ret' = [fn |-> "_generate_fallback_content", slide_type |-> <<>>, value |-> Fallback(args)]
    /\ pc' = "fn_returned"
    /\ UNCHANGED <<requests, heap, env, args, gen, llm, content_structure, prs, idx, img, log, calls, result>>

CallSlideContent ==
    /\ pc = "fn"
    /\ \E slide_type \in FocusTags \cup TemplateKeys \cup {t_implementation, t_conclusion} :
         ret' = [fn |-> "_generate_slide_content", slide_type |-> slide_type,
                 value |-> _generate_slide_content(args.topic, slide_type)]
    /\ pc' = "fn_returned"
    /\ UNCHANGED <<requests, heap, env, args, gen, llm, content_structure, prs, idx, img, log, calls, result>>

NextFallback == CallFallback \/ CallSlideContent

SpecFallback == InitFallback /\ [][NextFallback]_vars

(***************************************************************************)
(* Several generation requests side by side.  Each click of the button     *)
(* (main, lines 799-820) runs one request, and the hosting framework may   *)
(* serve several users at once, so the steps of the requests interleave.   *)
(* Objects are held by identity: a designer or a slide dict is an entry of *)
(* the heap and a request holds references to the objects it allocated.    *)
(***************************************************************************)
MaxRequests == 2
RequestIds == 1..MaxRequests

\* the variables of the single request of Spec
solo == <<env, pc, args, gen, llm, content_structure, prs, idx, img, log, calls, result, ret>>

\* one designer object for the whole process
DesignerOf_Singleton(r) == 1

\* line 806 with line 477: the constructor of request r allocates its own
\* designer object
DesignerOf(r) == r

\* lines 172, 207 and 253-315: the dict of the k-th slide of the structure of
\* request r is allocated by the call that builds that structure
SlideObj(r, k) == <<r, k>>

\* the function f with f[k] = v
Put(f, k, v) == [x \in DOMAIN f \cup {k} |-> IF x = k THEN v ELSE f[x]]

RequestArgs ==
    {[topic |-> "Remote Work", num_slides |-> 1, theme |-> "dark", focus_areas |-> None,
      custom_content |-> None, include_images |-> TRUE],
     [topic |-> "AI", num_slides |-> 1, theme |-> "neon", focus_areas |-> Some(<<t_benefits>>),
      custom_content |-> None, include_images |-> TRUE]}

RequestResponses ==
    {[called |-> TRUE, raised |-> TRUE, text |-> <<>>, obj |-> EmptyObject, slides_ok |-> TRUE],
     [called |-> TRUE, raised |-> FALSE, text |-> <<"{", "body", "}">>,
      obj |-> [title |-> llm_title, subtitle |-> llm_subtitle, slides |-> <<llm_slide_title_only>>],
      slides_ok |-> TRUE]}

RequestImageOutcomes ==
    {[post |-> "200", get |-> "200", placeholder |-> "drawn"],
     [post |-> "Timeout", get |-> "200", placeholder |-> "drawn"]}

NoRequest ==
    [pc |-> "new", args |-> NoArgs, model |-> FALSE, image_api_key |-> "", designer |-> 0,
     llm |-> NoResponse, structure |-> None, got |-> <<>>, prs |-> <<>>, idx |-> 0]

InitRequests ==
    /\ env = [GEMINI_AVAILABLE |-> TRUE, GEMINI_API_KEY |-> "key", OPENAI_API_KEY |-> "key"]
    /\ pc = "requests"
    /\ args = NoArgs
    /\ gen = NoGen
    /\ llm = NoResponse
    /\ content_structure = None
    /\ prs = <<>>
    /\ idx = 0
    /\ img = NoImage
    /\ log = NoLog
    /\ calls = NoCalls
    /\ result = NoResult
    /\ ret = NoRet
    /\ requests = [r \in RequestIds |-> NoRequest]
    /\ heap = NoHeap

\* the slides a builder added, with what it read while filling them: the
\* current theme of the designer (get_theme_colors, lines 550-647) and the
\* image bytes of the slide dict (line 582)
Drawn(added, theme, image) ==
    [k \in 1..Len(added) |-> added[k] @@ [theme |-> theme, image |-> image]]

\* main line 806: the generator of request r
RequestConstruct(r) ==
    /\ requests[r].pc = "new"
    /\ \E configured \in BOOLEAN :
         /\ configured => env.GEMINI_AVAILABLE /\ env.GEMINI_API_KEY # ""
         /\ requests' = [requests EXCEPT ![r] =
                [@ EXCEPT !.pc = "constructed", !.model = configured,
                          !.image_api_key = env.OPENAI_API_KEY, !.designer = DesignerOf(r)]]
    /\ heap' = [heap EXCEPT !.designers = Put(@, DesignerOf(r), "professional")]
    /\ UNCHANGED solo

\* lines 485-486 of request r
RequestCall(r) ==
    /\ requests[r].pc = "constructed"
    /\ \E a \in RequestArgs :
         /\ requests' = [requests EXCEPT ![r] = [@ EXCEPT !.pc = "content", !.args = a]]
         /\ heap' = [heap EXCEPT !.designers[requests[r].designer] = set_theme(@, a.theme)]
    /\ UNCHANGED solo

\* lines 490-492 of request r
RequestContent(r) ==
    LET q == requests[r]
    IN /\ q.pc = "content"
       /\ \E resp \in (IF q.model /\ env.GEMINI_AVAILABLE THEN RequestResponses ELSE {NoResponse}) :
            LET out == generate_content_structure(q.args, q.model, env.GEMINI_AVAILABLE, resp)
                n == Len(out.structure.slides)
                ids == [k \in 1..n |-> SlideObj(r, k)]
                new == {ids[k] : k \in 1..n}
            IN /\ requests' = [requests EXCEPT ![r] =
                      [@ EXCEPT !.pc = "title", !.llm = resp,
                                !.structure = Some([out.structure EXCEPT !.slides = ids])]]
               /\ heap' = [heap EXCEPT !.slides =
                      [x \in DOMAIN heap.slides \cup new |->
                          IF x \in new
                          THEN out.structure.slides[CHOOSE k \in 1..n : ids[k] = x]
                          ELSE heap.slides[x]]]
       /\ UNCHANGED solo

\* lines 498-502 of request r
RequestTitle(r) ==
    LET q == requests[r]
        built == _create_title_slide(q.structure[1].title, q.structure[1].subtitle)
    IN /\ q.pc = "title"
       /\ requests' = [requests EXCEPT ![r] =
              [@ EXCEPT !.pc = "loop", !.idx = 1,
                        !.prs = @ \o Drawn(built.added, heap.designers[q.designer], None)]]
       /\ UNCHANGED <<heap, solo>>

\* lines 509-517 of request r
RequestImage(r) ==
    LET q == requests[r]
    IN /\ q.pc = "loop"
       /\ q.idx <= Len(q.structure[1].slides)
       /\ q.args.include_images
       /\ \E o \in RequestImageOutcomes :
            /\ heap' = [heap EXCEPT !.slides[q.structure[1].slides[q.idx]] =
                   [f \in DOMAIN @ \cup {"image_bytes"} |->
                       IF f = "image_bytes" THEN generate_image(q.image_api_key, o).ret ELSE @[f]]]
            /\ requests' = [requests EXCEPT ![r] = [@ EXCEPT !.pc = "build", !.got = Append(@, o)]]
       /\ UNCHANGED solo

\* line 519 of request r
RequestSlide(r) ==
    LET q == requests[r]
        slide_data == heap.slides[q.structure[1].slides[q.idx]]
        built == _create_content_slide_with_image(slide_data, q.idx, q.args.include_images)
        image == IF "image_bytes" \in DOMAIN slide_data THEN slide_data.image_bytes ELSE None
    IN /\ q.pc = "build"
       /\ requests' = [requests EXCEPT ![r] =
              [@ EXCEPT !.pc = "loop", !.idx = @ + 1,
                        !.prs = @ \o Drawn(built.added, heap.designers[q.designer], image)]]
       /\ UNCHANGED <<heap, solo>>

\* lines 521-523 of request r
RequestClosing(r) ==
    LET q == requests[r]
        built == _create_closing_slide(q.args.topic)
    IN /\ q.pc = "loop"
       /\ q.idx > Len(q.structure[1].slides)
       /\ requests' = [requests EXCEPT ![r] =
              [@ EXCEPT !.pc = "save",
                        !.prs = @ \o Drawn(built.added, heap.designers[q.designer], None)]]
       /\ UNCHANGED <<heap, solo>>

\* lines 528-534 of request r
RequestSave(r) ==
    /\ requests[r].pc = "save"
    /\ requests' = [requests EXCEPT ![r] = [@ EXCEPT !.pc = "returned"]]
    /\ UNCHANGED <<heap, solo>>

NextRequests ==
    \E r \in RequestIds :
        \/ RequestConstruct(r)
        \/ RequestCall(r)
        \/ RequestContent(r)
        \/ RequestTitle(r)
        \/ RequestImage(r)
        \/ RequestSlide(r)
        \/ RequestClosing(r)
        \/ RequestSave(r)

SpecRequests == InitRequests /\ [][NextRequests]_vars

(***************************************************************************)
(* The choice of the text handed to json.loads (lines 156-169) on its own, *)
(* for every response text of up to MaxTokens tokens.                      *)
(***************************************************************************)
MaxTokens == 5
Tokens == {"fence", "json", "ws", "prose", "{", "}"}

InitParse ==
    /\ env = [GEMINI_AVAILABLE |-> TRUE, GEMINI_API_KEY |-> "key", OPENAI_API_KEY |-> "key"]
    /\ pc = "fn"
    /\ args = NoArgs
    /\ gen = NoGen
    /\ llm \in {[NoResponse EXCEPT !.called = TRUE, !.text = t] : t \in SeqsUpTo(Tokens, MaxTokens)}
    /\ content_structure = None
    /\ prs = <<>>
    /\ idx = 0
    /\ img = NoImage
    /\ log = NoLog
    /\ calls = NoCalls
    /\ result = NoResult
    /\ ret = NoRet
    /\ requests = <<>>
    /\ heap = NoHeap

CallJsonContent ==
    /\ pc = "fn"
    /\ ret' = [fn |-> "json_content", slide_type |-> <<>>, value |-> JsonContent(llm.text)]
    /\ pc' = "fn_returned"
    /\ UNCHANGED <<requests, heap, env, args, gen, llm, content_structure, prs, idx, img, log, calls, result>>

NextParse == CallJsonContent

SpecParse == InitParse /\ [][NextParse]_vars

(***************************************************************************)
(* Properties.                                                             *)
(***************************************************************************)
FallbackReturned == pc = "fn_returned" /\ ret.fn = "_generate_fallback_content"
SlideContentReturned == pc = "fn_returned" /\ ret.fn = "_generate_slide_content"

\* the tags the contract counts: the supplied list, or the default list when
\* none is supplied (None or the empty list)
ContractTags == IF args.focus_areas \in {None, Some(<<>>)} THEN DefaultSlideTypes ELSE args.focus_areas[1]

\* C1: with no custom content, _generate_fallback_content returns exactly
\* min(count, len(tags)) slides, tags being the supplied focus-area list or,
\* when none is supplied, the default list of 6 tags.
C1_FallbackSlideCount ==
    (FallbackReturned /\ ~Truthy(args.custom_content)) =>
        /\ Len(DefaultSlideTypes) = 6
        /\ Len(ret.value.slides) = Min(args.num_slides, Len(ContractTags))

C1_Witness ==
    /\ FallbackReturned
    /\ args.custom_content = None
    /\ args.focus_areas = Some(<<t_benefits, t_future_trends>>)
    /\ args.num_slides = 5
    /\ Len(ret.value.slides) = 2

\* C2: for every slide count N in 3..15 the assembler produces exactly N slide
\* entries; with custom content these are one custom slide followed by N-1
\* template slides.
C2_ExactlyNSlides ==
    (FallbackReturned /\ args.num_slides \in 3..15) =>
        /\ Len(ret.value.slides) = args.num_slides
        /\ Truthy(args.custom_content) =>
             /\ ret.value.slides[1].type = t_custom
             /\ \A k \in 2..Len(ret.value.slides) : ret.value.slides[k].type # t_custom

\* out is tag in title case with underscores as spaces: every underscore is a
\* space, every letter that starts a word is upper case, every other letter
\* lower case, every other character unchanged
IsTitleCaseOf(out, tag) ==
    /\ Len(out) = Len(tag)
    /\ \A k \in 1..Len(tag) :
         IF tag[k] = "_" THEN out[k] = " "
         ELSE IF ~IsCased(tag[k]) THEN out[k] = tag[k]
         ELSE IF k = 1 \/ ~IsCased(tag[k - 1])
              THEN IsUpper(out[k]) /\ Lower(out[k]) = Lower(tag[k])
              ELSE IsLower(out[k]) /\ Upper(out[k]) = Upper(tag[k])

\* C10: for a tag that is no key of the template table, _generate_slide_content
\* returns the generic template: a non-empty title "<Tag in title case,
\* underscores as spaces> - <topic>", type equal to the tag, at least one bullet.
C10_GenericTemplate ==
    (SlideContentReturned /\ ret.slide_type \notin TemplateKeys) =>
        LET v == ret.value
        IN /\ Len(v.title) = 3
           /\ v.title[1].s = "" /\ IsTitleCaseOf(v.title[1].cs, ret.slide_type)
           /\ v.title[1].cs # <<>>
           /\ v.title[2] = Lit(" - ")
           /\ v.title[3] = Lit(args.topic)
           /\ v.type = ret.slide_type
           /\ Len(v.bullet_points) >= 1

C10_Witness ==
    /\ SlideContentReturned
    /\ ret.slide_type = t_future_trends
    /\ ret.value.title[1].cs = <<"F","u","t","u","r","e"," ","T","r","e","n","d","s">>
    /\ ret.value.bullet_points # <<>>

\* generate_content_structure has returned from an LLM call that delivered a text
LLMAnswered == pc = "title" /\ llm.called /\ ~llm.raised

\* C3 as stated: when the LLM is configured and its response text is not
\* parseable as JSON, generate_content_structure returns the structure
\* _generate_fallback_content returns for the same inputs.
C3_MalformedResponseFallsBack ==
    (LLMAnswered /\ JsonLoads(llm.text) = "JSONDecodeError") =>
        Structure = Fallback(args)

\* C3 as amended: when the LLM is configured and the text the code extracts
\* from its response (first fenced block, else first '{' to last '}', else the
\* whole stripped response) is not parseable as JSON, generate_content_structure
\* returns the structure _generate_fallback_content returns for the same
\* topic, slide count, focus areas and custom content.
C3_UnparseableExtractFallsBack ==
    (LLMAnswered /\ JsonLoads(JsonContent(llm.text)) = "JSONDecodeError") =>
        Structure = _generate_fallback_content(args.topic, args.num_slides,
                                               args.focus_areas, args.custom_content)

C3_Witness ==
    /\ LLMAnswered
    /\ llm.text = <<"fence", "prose", "fence", "{", "body", "}">>
    /\ args.custom_content # None
    /\ args.num_slides = 3
    /\ Len(Structure.slides) = 3
    /\ Structure.slides[1].type = t_custom

\* C4: when the LLM call raises, generate_content_structure makes no second LLM
\* call, emits a warning, returns the fallback structure, and no exception
\* reaches the caller.
C4_LLMFailureFallsBack ==
    /\ calls.llm <= 1
    /\ (llm.called /\ llm.raised) =>
          /\ pc = "title"
          /\ calls.llm = 1
          /\ log.warnings = 1
          /\ result.kind = "none"
          /\ Structure = Fallback(args)

C4_Witness ==
    /\ llm.called /\ llm.raised
    /\ pc = "title"
    /\ args.focus_areas = Some(<<t_benefits, t_ROI_v2x>>)
    /\ Len(Structure.slides) = 2

\* C5: when the LLM returns parseable JSON that lacks title, subtitle or slides,
\* generate_content_structure returns the fallback structure with a warning,
\* so create_presentation never aborts on a missing key.
C5_MissingKeyFallsBack ==
    /\ (LLMAnswered /\ JsonLoads(JsonContent(llm.text)) = "dict"
          /\ ~({"title", "subtitle", "slides"} \subseteq DOMAIN llm.obj)) =>
          /\ Structure = Fallback(args)
          /\ log.warnings >= 1
    /\ pc = "raised" => result.exc # "KeyError"

\* the invocation of generate_image for the slide the loop is at met a failure
ImageFailed ==
    \/ gen.image_api_key = ""
    \/ img.outcome.post # "200"
    \/ img.outcome.get \notin {"200", "200_junk"}

\* C6: on every failure of the image endpoint (timeout, network error, non-200
\* status of either call, missing credentials, malformed body) generate_image
\* returns placeholder bytes: never None, never an exception.
C6_ImageNeverNull ==
    (pc = "build") =>
        LET slide_data == Structure.slides[idx]
        IN /\ img.called
           /\ "image_bytes" \in DOMAIN slide_data
           /\ slide_data.image_bytes # None
           /\ ImageFailed =>
                slide_data.image_bytes \in {Some("placeholder"), Some("minimal_placeholder")}

C6_Witness ==
    /\ pc = "build"
    /\ gen.image_api_key = "key"
    /\ img.outcome.post = "200_malformed"
    /\ img.outcome.placeholder = "draw_fails"
    /\ Structure.slides[idx].image_bytes = Some("minimal_placeholder")

\* C7: with no credentials configured, a request with slide count 3, no focus
\* areas and no custom content completes without error and yields a deck of
\* exactly 5 slides (title, 3 content, closing), the i-th content slide titled
\* as the i-th default fallback template.
NoCredentials ==
    /\ env.GEMINI_API_KEY \in {Unbound, ""}
    /\ env.OPENAI_API_KEY \in {Unbound, ""}

C7_NoCredentialsFiveSlides ==
    NoCredentials =>
        /\ pc # "raised"
        /\ (pc = "returned" /\ args.num_slides = 3 /\ args.focus_areas = None
              /\ args.custom_content = None) =>
             /\ result.kind = "bytes"
             /\ Len(result.deck) = 5
             /\ result.deck[1].kind = "title"
             /\ result.deck[5].kind = "closing"
             /\ \A i \in 1..3 :
                  /\ result.deck[i + 1].kind = "content"
                  /\ result.deck[i + 1].title =
                        Some(_generate_slide_content(args.topic, DefaultSlideTypes[i]).title)

\* the deck under construction is a prefix of: title slide, the SlideSpecs in
\* list order, closing slide
DeckInOrder(deck, k) ==
    /\ Len(deck) <= k + 2
    /\ \A j \in 1..Len(deck) :
         /\ j = 1 => deck[j].kind = "title"
         /\ (2 <= j /\ j <= k + 1) => deck[j].kind = "content" /\ deck[j].src = j - 1
         /\ j = k + 2 => deck[j].kind = "closing"

\* C8: create_presentation adds one title slide, then one slide per SlideSpec in
\* list order, then one closing slide; the finished deck has exactly k + 2
\* slides, with images enabled or disabled.
C8_DeckOrder ==
    /\ pc \in {"loop", "build", "save", "returned"} => DeckInOrder(prs, Len(Structure.slides))
    /\ pc \in {"loop", "build"} => Len(prs) = idx
    /\ pc \in {"save", "returned"} => Len(prs) = Len(Structure.slides) + 2
    /\ pc = "returned" => result.deck = prs

C8_Witness ==
    /\ pc = "returned"
    /\ args.include_images
    /\ Len(Structure.slides) = 2
    /\ Len(result.deck) = 4
    /\ result.deck[2].picture /\ ~result.deck[3].picture

\* the slide added last was left unfinished by its builder: its filling raised,
\* or its picture could not be embedded
LastSlideFailed(deck, slides) ==
    LET slide == deck[Len(deck)]
    IN \/ ~slide.body
       \/ /\ slide.kind = "content"
          /\ "image_bytes" \in DOMAIN slides[slide.src]
          /\ slides[slide.src].image_bytes = Some("junk")

C11_BulletPointsAtMostSix ==
    pc = "title" =>
        \A k \in 1..Len(Structure.slides) :
            LET slide == Structure.slides[k]
            IN IsDict(slide) =>
                 /\ "bullet_points" \in DOMAIN slide
                 /\ Len(slide.bullet_points) <= 6

\* what request r reads and produces is a function of its own arguments and of
\* the external responses it received
OwnOnly(r) ==
    LET q == requests[r]
        own == generate_content_structure(q.args, q.model, env.GEMINI_AVAILABLE, q.llm).structure
    IN q.pc \in {"title", "loop", "build", "save", "returned"} =>
         /\ q.structure[1].title = own.title
         /\ Len(q.structure[1].slides) = Len(own.slides)
         /\ \A j \in 1..Len(q.prs) :
              LET slide == q.prs[j]
              IN /\ slide.theme = set_theme("professional", q.args.theme)
                 /\ slide.kind = "title" => slide.title = Some(own.title)
                 /\ slide.kind = "content" =>
                      /\ slide.title = Some(own.slides[slide.src].title)
                      /\ slide.image = generate_image(q.image_api_key, q.got[slide.src]).ret
         /\ q.pc = "returned" => Len(q.prs) = Len(own.slides) + 2

\* C12: for any interleaving of generation requests, the structure, theme and
\* deck of each request depend only on its own inputs and the external
\* responses it received: no object (designer, slide dict with its image
\* bytes) is held by two requests, and nothing a finished request wrote is
\* read by a later one.
C12_RequestsIsolated ==
    /\ \A r \in RequestIds : OwnOnly(r)
    /\ \A r1, r2 \in RequestIds :
         (r1 # r2 /\ requests[r1].pc # "new" /\ requests[r2].pc # "new") =>
            /\ requests[r1].designer # requests[r2].designer
            /\ requests[r1].structure # None /\ requests[r2].structure # None =>
                 \A k1 \in 1..Len(requests[r1].structure[1].slides),
                    k2 \in 1..Len(requests[r2].structure[1].slides) :
                      requests[r1].structure[1].slides[k1] # requests[r2].structure[1].slides[k2]

C12_Witness ==
    /\ requests[1].pc = "returned"
    /\ requests[2].pc = "build"
    /\ requests[1].args.theme = "dark" /\ requests[2].args.theme = "neon"
    /\ requests[1].prs[2].theme = "dark" /\ requests[2].prs[1].theme = "professional"
    /\ requests[1].prs[2].image = Some("image")
    /\ heap.slides[requests[2].structure[1].slides[1]].image_bytes = Some("placeholder")

\* C13: the designer's theme set is always exactly the four presets
\* professional, modern, creative and dark, and current_theme is always one of
\* them: set_theme with a known name makes it current, with any other name it
\* leaves current_theme and the theme set unchanged, so get_theme_colors
\* always succeeds.
C13_ThemeAlwaysPreset ==
    /\ [](/\ gen.themes = {"professional", "modern", "creative", "dark"}
          /\ gen.current_theme \in gen.themes
          /\ get_theme_colors(gen.themes, gen.current_theme) = "colors")
    /\ [][/\ pc # "new" => gen'.themes = gen.themes
          /\ (pc = "constructed" /\ pc' = "content") =>
                gen'.current_theme = IF args'.theme \in gen.themes THEN args'.theme
                                     ELSE gen.current_theme
          /\ (pc \notin {"new", "constructed"}) => gen'.current_theme = gen.current_theme]_vars

C13_Witness ==
    /\ pc = "returned"
    /\ args.theme = "neon"
    /\ gen.current_theme = "professional"
    /\ gen.themes = {"professional", "modern", "creative", "dark"}

JsonContentReturned == pc = "fn_returned" /\ ret.fn = "json_content"

\* s is t without the whitespace at its two ends
IsStripped(s, t) ==
    /\ (s # <<>> => s[1] # "ws" /\ s[Len(s)] # "ws")
    /\ \E i \in 1..Len(t) + 1 :
         /\ \A k \in 1..i - 1 : t[k] = "ws"
         /\ Len(s) <= Len(t) - i + 1
         /\ \A k \in 1..Len(s) : s[k] = t[i + k - 1]
         /\ \A k \in i + Len(s)..Len(t) : t[k] = "ws"

\* s is the content of the block of t that opens at fence a and closes at
\* fence b: what lies between them, without the word json right after the
\* opening fence and without the whitespace around
IsBlockContent(s, t, a, b) ==
    LET from == IF a + 1 < b /\ t[a + 1] = "json" THEN a + 2 ELSE a + 1
    IN IsStripped(s, [k \in 1..b - from |-> t[from + k - 1]])

\* s is the slice of t from position i to position j inclusive
IsSlice(s, t, i, j) ==
    /\ Len(s) = (IF j >= i THEN j - i + 1 ELSE 0)
    /\ \A k \in 1..Len(s) : s[k] = t[i + k - 1]

\* C14: the text handed to the JSON parser is, when the response contains a
\* fenced block, the content of the first fenced block; otherwise, when the
\* response contains both '{' and '}', the slice from the first '{' to the
\* last '}' inclusive; otherwise the whole stripped response.
C14_ExtractionOrder ==
    JsonContentReturned =>
        \E response \in {[k \in 1..w[2] |-> llm.text[w[1] + k - 1]] :
                              w \in {v \in (1..Len(llm.text) + 1) \X (0..Len(llm.text)) :
                                         v[1] + v[2] - 1 <= Len(llm.text)}} :
            /\ IsStripped(response, llm.text)
            /\ LET fences == {k \in 1..Len(response) : response[k] = "fence"}
                   opens == {k \in 1..Len(response) : response[k] = "{"}
                   closes == {k \in 1..Len(response) : response[k] = "}"}
               IN IF Cardinality(fences) >= 2
                  THEN \E a, b \in fences :
                         /\ a < b
                         /\ \A f \in fences : f >= a /\ (f > a => f >= b)
                         /\ IsBlockContent(ret.value, response, a, b)
                  ELSE IF opens # {} /\ closes # {}
                  THEN \E i \in opens, j \in closes :
                         /\ \A o \in opens : i <= o
                         /\ \A c \in closes : c <= j
                         /\ IsSlice(ret.value, response, i, j)
                  ELSE ret.value = response

C14_Witness ==
    /\ JsonContentReturned
    /\ llm.text = <<"fence", "prose", "fence", "{", "}">>
    /\ ret.value = <<"prose">>

\* generate_content_structure has returned the structure of the LLM response:
\* every path to the fallback emits a warning
LLMStructureReturned == LLMAnswered /\ log.warnings = 0

\* C15: whenever generate_content_structure returns a structure taken from an
\* LLM response (no fallback), every slide of it has the fields bullet_points,
\* image_prompt and content: the fields present in the response are kept
\* unchanged and the missing ones are filled with synthesized defaults.
C15_LLMSlidesBackfilled ==
    LLMStructureReturned =>
        /\ Len(Structure.slides) = Len(llm.obj.slides)
        /\ \A k \in 1..Len(Structure.slides) :
             LET slide == Structure.slides[k]
                 sent == llm.obj.slides[k]
             IN /\ {"bullet_points", "image_prompt", "content"} \subseteq DOMAIN slide
                /\ \A f \in DOMAIN sent : slide[f] = sent[f]
                /\ "bullet_points" \notin DOMAIN sent => Len(slide.bullet_points) = 3
                /\ "image_prompt" \notin DOMAIN sent =>
                      slide.image_prompt = <<Lit(args.topic), Lit(" related illustration")>>
                /\ "content" \notin DOMAIN sent => slide.content[1] = Lit("Content about ")

\* C16: one invocation of generate_image sends at most one request to the
\* image-generation endpoint and at most one download request, and never
\* retries after a failure; with no image credential it sends no request at
\* all before returning the placeholder.
C16_OneRequestPerInvocation ==
    [][IF calls'.image = calls.image + 1
       THEN /\ calls'.post - calls.post \in {0, 1}
            /\ calls'.get - calls.get \in {0, 1}
            /\ calls'.get > calls.get => calls'.post > calls.post /\ img'.outcome.post = "200"
            /\ img'.outcome.post # "200" => calls'.get = calls.get
            /\ gen.image_api_key = "" =>
                 /\ calls'.post = calls.post /\ calls'.get = calls.get
                 /\ content_structure'[1].slides[idx].image_bytes
                        \in {Some("placeholder"), Some("minimal_placeholder")}
       ELSE calls'.image = calls.image /\ calls'.post = calls.post /\ calls'.get = calls.get]_vars

C16_Witness ==
    /\ pc = "build"
    /\ idx = 2
    /\ gen.image_api_key = "key"
    /\ img.outcome.post = "Timeout"
    /\ calls = [llm |-> 0, image |-> 2, post |-> 2, get |-> 1]

\* C17: within one create_presentation run with images enabled, generate_image
\* is invoked exactly once per SlideSpec, in slide-list order, and the
\* invocation for slide i has finished before slide i is added to the deck
\* and before the invocation for slide i+1 starts; with images disabled it is
\* never invoked and no SlideSpec receives image_bytes.
C17_ImagePerSlideInOrder ==
    pc \in {"loop", "build", "save", "returned"} =>
        LET slides == Structure.slides
            received == {k \in 1..Len(slides) : "image_bytes" \in DOMAIN slides[k]}
            added == {prs[j].src : j \in {i \in 1..Len(prs) : prs[i].kind = "content"}}
        IN IF args.include_images
           THEN /\ pc = "loop" => calls.image = idx - 1
                /\ pc = "build" => calls.image = idx /\ idx \notin added
                /\ pc \in {"save", "returned"} => calls.image = Len(slides)
                /\ received = 1..calls.image
                /\ added \subseteq received
                /\ pc # "build" => added = received
           ELSE /\ pc # "build"
                /\ calls.image = 0 /\ calls.post = 0 /\ calls.get = 0
                /\ received = {}

C17_Witness ==
    /\ pc = "build"
    /\ idx = 2
    /\ args.include_images
    /\ Len(Structure.slides) = 3
    /\ calls.image = 2
    /\ Len(prs) = 2
    /\ "image_bytes" \in DOMAIN Structure.slides[2]
    /\ "image_bytes" \notin DOMAIN Structure.slides[3]

\* C18: in a fallback structure built from a focus-area list, the i-th template
\* slide (after the optional custom slide) has type equal to the i-th
\* focus-area tag and is filled from that tag's template, and every slide's
\* slide_number equals its 1-based position in the slides list.
C18_FocusOrder ==
    (FallbackReturned /\ args.focus_areas \notin {None, Some(<<>>)}) =>
        LET slides == ret.value.slides
            tags == args.focus_areas[1]
            custom == IF Truthy(args.custom_content) THEN 1 ELSE 0
        IN /\ Len(slides) >= custom
           /\ Len(slides) - custom <= Len(tags)
           /\ custom = 1 => slides[1].type = t_custom
           /\ \A k \in 1..Len(slides) : slides[k].slide_number = k
           /\ \A i \in 1..Len(slides) - custom :
                LET slide == slides[custom + i]
                    template == _generate_slide_content(args.topic, tags[i])
                IN /\ slide.type = tags[i]
                   /\ DOMAIN slide = DOMAIN template \cup {"slide_number"}
                   /\ \A f \in DOMAIN template : slide[f] = template[f]

C18_Witness ==
    /\ FallbackReturned
    /\ args.custom_content = Some(text_two)
    /\ args.focus_areas = Some(<<t_benefits, t_future_trends>>)
    /\ args.num_slides = 3
    /\ Len(ret.value.slides) = 3
    /\ ret.value.slides[2].type = t_benefits
    /\ ret.value.slides[3].type = t_future_trends
    /\ ret.value.slides[3].slide_number = 3

\* the stages of a request, in the order of the pipeline
Stage(p) ==
    CASE p = "new" -> 0
      [] p = "constructed" -> 1
      [] p = "content" -> 2
      [] p = "title" -> 3
      [] p \in {"loop", "build"} -> 4
      [] p = "save" -> 5
      [] OTHER -> 6

Ended == pc \in {"returned", "raised"}

\* C19: provided every external call returns or fails, every generation
\* request eventually ends in exactly one of two outcomes, deck bytes returned
\* or an error reported, passing through content generation, title slide,
\* content slides, closing slide and serialization in that order and never
\* going back to an earlier stage; the LLM is tried once, and the only way
\* back is from the failed attempt to the fallback assembler.
C19_LinearPipelineTerminates ==
    /\ <>Ended
    /\ [](/\ pc = "returned" <=> result.kind = "bytes"
          /\ pc = "raised" <=> result.kind = "raised"
          /\ pc = "raised" => log.errors >= 1
          /\ calls.llm <= 1)
    /\ [][/\ Stage(pc') >= Stage(pc)
          /\ idx' >= idx
          /\ Len(prs') >= Len(prs)
          /\ pc' = "title" => pc = "content"
          /\ pc' = "loop" => pc \in {"title", "build", "loop"}
          /\ pc' = "build" => pc = "loop"
          /\ pc' = "save" => pc = "loop" /\ prs'[Len(prs')].kind = "closing"
          /\ pc' = "returned" => pc = "save"
          /\ Ended => pc' = pc /\ result' = result]_vars

C19_Witness ==
    /\ pc = "returned"
    /\ result.kind = "bytes"
    /\ calls.llm = 1
    /\ log.warnings >= 1
    /\ Structure = Fallback(args)
    /\ Len(result.deck) = 4

\* C20: after every successful generation the total slide count the
\* application reports (requested content slides + 2) equals the number of
\* slides in the produced deck, for every slide count 3..12, every focus-area
\* selection, with or without custom content, on the LLM and the fallback path.
C20_ReportedTotalMatchesDeck ==
    (pc = "returned" /\ args.num_slides \in 3..12) =>
        Len(result.deck) = ReportedTotal(args.num_slides)

====
